---- MODULE Spec2Model ----
(***************************************************************************)
(* Model of src/src/token_bucket.rs: a token bucket whose fill level is    *)
(* kept as one monotonic timestamp, last_refreshed.                        *)
(*                                                                         *)
(* Time is counted in milliseconds.  u64 arithmetic is scaled down to the  *)
(* range 0 .. U64Range-1 so that the products of TokenBucket::new can      *)
(* overflow inside the bounds; an overflowing u64 multiplication panics in *)
(* a build with overflow checks and wraps in a build without them.         *)
(* An Instant is an integer >= instant_floor, the oldest instant the       *)
(* platform's representation can hold: the clock's own origin on platforms *)
(* that count unsigned ticks since start-up, or a point further back than  *)
(* any u64 number of milliseconds on platforms with a signed seconds field.*)
(***************************************************************************)
EXTENDS Integers, Sequences, FiniteSets, TLC

\* ---- bounds ------------------------------------------------------------
U64Range == 6
MaxInterval == 2
MaxCapacity == 3
MaxInitial == 3
MaxStart == 1
MaxTime == 5
MaxIdle == 2
MaxSkew == 1
MaxOvershoot == 1
MaxUnder == 1

VARIABLES
    now,                  \* the monotonic clock, Instant::now()
    overflow_checks,      \* build profile: TRUE = arithmetic overflow panics
    instant_floor,        \* oldest representable Instant of the platform
    tb,                   \* "none" | "some" | "absent" | "panic"
    last_refreshed,       \* TokenBucket.last_refreshed
    max_refresh_duration, \* TokenBucket.max_refresh_duration
    refresh_interval,     \* TokenBucket.refresh_interval
    args,                 \* the arguments TokenBucket::new was called with
    t0,                   \* the clock value TokenBucket::new read
    burst,                \* try_take successes since the clock last moved
    rested,               \* the clock last moved by a caller's sleep of at
                          \* least max_refresh_duration
    run,                  \* calls since construction: "fresh" (none),
                          \* "try_takes", "takes" (only those), or "mixed"
    nok,                  \* in a run of takes: calls that returned Some(())
    take_failed,          \* in a run of takes: some call returned None
    clamped,              \* in a run of takes: some call found
                          \* now - max_refresh_duration > last_refreshed
    served,               \* take calls that returned Some(()) since the
                          \* clock last moved
    early,                \* by how much the sleep of the last take call
                          \* returned before the time asked
    window,               \* an observer's window: the instant it opens and
                          \* the tokens taken by calls that returned in it
    ret                   \* what the last call did and returned

vars == <<now, overflow_checks, instant_floor, tb, last_refreshed,
          max_refresh_duration, refresh_interval, args, t0, burst, rested,
          run, nok, take_failed, clamped, served, early, window, ret>>

\* ---- Option, cmp, Instant and Duration arithmetic ------------------------
None == <<>>

Some(x) == <<x>>

unwrap(o) == o[1]

min(a, b) == IF a <= b THEN a ELSE b

max(a, b) == IF a >= b THEN a ELSE b

\* Instant::checked_sub(duration): None when the result is not representable
checked_sub(t, d, floor) == IF t - d >= floor THEN Some(t - d) ELSE None

\* Instant::checked_duration_since(earlier): None when earlier is later
checked_duration_since(t, earlier) == IF t >= earlier THEN Some(t - earlier) ELSE None

\* Instant::duration_since(earlier): saturates to zero
duration_since(t, earlier) == IF t >= earlier THEN t - earlier ELSE 0

\* u64 `*`: TRUE when the mathematical product leaves the u64 range
mul_overflows(a, b) == a * b >= U64Range

\* u64 `*` in a build without overflow checks
wrapping_mul(a, b) == (a * b) % U64Range

\* the oldest Instant of a platform whose Instant reaches further back than
\* any Duration::from_millis(u64) can be subtracted from a running clock
DeepFloor == 0 - U64Range

\* ---- TokenBucket ---------------------------------------------------------
NoBucket(status) ==
    [status |-> status, last_refreshed |-> 0, max_refresh_duration |-> 0,
     refresh_interval |-> 0]

\* mutant of line 25: the initial capacity taken as given
current_tokens_count_unclamped(max_capacity, initial_capacity) ==
    initial_capacity

\* line 25: cmp::min(max_capacity, initial_capacity)
current_tokens_count(max_capacity, initial_capacity) ==
    min(max_capacity, initial_capacity)

\* TokenBucket::new called when the clock reads t
new(refresh_interval_ms, max_capacity, initial_capacity, t, checks, floor) ==
    LET count == current_tokens_count(max_capacity, initial_capacity)
        sub == checked_sub(t, wrapping_mul(refresh_interval_ms, count), floor)
    IN  IF refresh_interval_ms = 0 THEN NoBucket("absent")
        ELSE IF checks /\ mul_overflows(refresh_interval_ms, count)
            THEN NoBucket("panic")
        ELSE IF sub = None THEN NoBucket("absent")
        ELSE IF checks /\ mul_overflows(refresh_interval_ms, max_capacity)
            THEN NoBucket("panic")
        ELSE [status |-> "some",
              last_refreshed |-> unwrap(sub),
              max_refresh_duration |-> wrapping_mul(refresh_interval_ms, max_capacity),
              refresh_interval |-> refresh_interval_ms]

\* mutant of get_effective_last_refreshed: the capacity ceiling left out
get_effective_last_refreshed_unclamped(lr, mrd, t, floor) ==
    IF checked_sub(t, mrd, floor) = None THEN None ELSE Some(lr)

\* mutant of get_effective_last_refreshed: cmp::min written for cmp::max
get_effective_last_refreshed_min(lr, mrd, t, floor) ==
    LET sub == checked_sub(t, mrd, floor)
    IN  IF sub = None THEN None ELSE Some(min(lr, unwrap(sub)))

\* TokenBucket::get_effective_last_refreshed, the clock reading t
get_effective_last_refreshed(lr, mrd, t, floor) ==
    LET sub == checked_sub(t, mrd, floor)
    IN  IF sub = None THEN None ELSE Some(max(lr, unwrap(sub)))

\* mutant of lines 45 and 58: a token costs no virtual time
new_last_refreshed_free(effective_last_refreshed, ri) == effective_last_refreshed

\* lines 45 and 58: effective_last_refreshed + self.refresh_interval
new_last_refreshed(effective_last_refreshed, ri) == effective_last_refreshed + ri

\* TokenBucket::get_next_refreshed_time
get_next_refreshed_time(lr, mrd, ri, t, floor) ==
    LET eff == get_effective_last_refreshed(lr, mrd, t, floor)
    IN  IF eff = None THEN None ELSE Some(new_last_refreshed(unwrap(eff), ri))

\* mutant of try_take: the field is assigned before the comparison
try_take_eager(lr, mrd, ri, t1, t2, floor) ==
    LET next == get_next_refreshed_time(lr, mrd, ri, t1, floor)
    IN  IF next = None THEN [ok |-> FALSE, last_refreshed |-> lr]
        ELSE [ok |-> checked_duration_since(t2, unwrap(next)) # None,
              last_refreshed |-> unwrap(next)]

\* mutant of try_take: the comparison with the clock left out
try_take_unchecked(lr, mrd, ri, t1, t2, floor) ==
    LET next == get_next_refreshed_time(lr, mrd, ri, t1, floor)
    IN  IF next = None THEN [ok |-> FALSE, last_refreshed |-> lr]
        ELSE [ok |-> TRUE, last_refreshed |-> unwrap(next)]

\* TokenBucket::try_take: the clock reads t1 in get_effective_last_refreshed
\* and t2 in the comparison; the result and the field after the call
try_take(lr, mrd, ri, t1, t2, floor) ==
    LET next == get_next_refreshed_time(lr, mrd, ri, t1, floor)
    IN  IF next = None THEN [ok |-> FALSE, last_refreshed |-> lr]
        ELSE IF checked_duration_since(t2, unwrap(next)) = None
            THEN [ok |-> FALSE, last_refreshed |-> lr]
        ELSE [ok |-> TRUE, last_refreshed |-> unwrap(next)]

\* mutant of line 62: the instant of waking is stored instead of the deadline
take_store_wake(deadline, wake) == wake

\* line 62 of TokenBucket::take: the value stored after the sleep, given the
\* deadline computed at entry and the instant the thread woke
take_store(deadline, wake) == deadline

\* mutant of take: the deadline is stored but the thread is not put to sleep
take_no_sleep(lr, mrd, ri, t1, t2, t3, over, floor) ==
    LET eff == get_effective_last_refreshed(lr, mrd, t1, floor)
        next == new_last_refreshed(unwrap(eff), ri)
        sleeps == checked_duration_since(t2, next) = None
        dur == duration_since(next, t3)
        wake == IF sleeps THEN t3 ELSE t2
    IN  IF eff = None
        THEN [ok |-> FALSE, last_refreshed |-> lr, slept |-> FALSE, dur |-> 0,
              wake |-> t1]
        ELSE [ok |-> TRUE, last_refreshed |-> take_store(next, wake),
              slept |-> sleeps, dur |-> IF sleeps THEN dur ELSE 0,
              wake |-> wake]

\* mutant of take: a deadline that has just been reached still sleeps
take_strict(lr, mrd, ri, t1, t2, t3, over, floor) ==
    LET eff == get_effective_last_refreshed(lr, mrd, t1, floor)
        next == new_last_refreshed(unwrap(eff), ri)
        sleeps == t2 <= next
        dur == duration_since(next, t3)
        wake == IF sleeps THEN t3 + dur + over ELSE t2
    IN  IF eff = None
        THEN [ok |-> FALSE, last_refreshed |-> lr, slept |-> FALSE, dur |-> 0,
              wake |-> t1]
        ELSE [ok |-> TRUE, last_refreshed |-> take_store(next, wake),
              slept |-> sleeps, dur |-> IF sleeps THEN dur ELSE 0,
              wake |-> wake]

\* TokenBucket::take: the clock reads t1 in get_effective_last_refreshed, t2
\* in the comparison and t3 in the argument of thread::sleep, which returns
\* `over` after the time asked
take(lr, mrd, ri, t1, t2, t3, over, floor) ==
    LET eff == get_effective_last_refreshed(lr, mrd, t1, floor)
        next == new_last_refreshed(unwrap(eff), ri)
        sleeps == checked_duration_since(t2, next) = None
        dur == duration_since(next, t3)
        wake == IF sleeps THEN t3 + dur + over ELSE t2
    IN  IF eff = None
        THEN [ok |-> FALSE, last_refreshed |-> lr, slept |-> FALSE, dur |-> 0,
              wake |-> t1]
        ELSE [ok |-> TRUE, last_refreshed |-> take_store(next, wake),
              slept |-> sleeps, dur |-> IF sleeps THEN dur ELSE 0,
              wake |-> wake]

\* impl fmt::Debug: the clock reads t1 in get_effective_last_refreshed and t2
\* for the elapsed time; the count rendered, or None for fmt::Error
fmt(lr, mrd, ri, t1, t2, floor) ==
    LET eff == get_effective_last_refreshed(lr, mrd, t1, floor)
        elapsed == checked_duration_since(t2, unwrap(eff))
    IN  IF eff = None THEN None
        ELSE IF elapsed = None THEN None
        ELSE IF ri = 0 THEN Some(0)
        ELSE Some(unwrap(elapsed) \div ri)

\* ---- the state machine ---------------------------------------------------
NoWindow == [from |-> 0 - 1, n |-> 0, first |-> FALSE]

\* the window after a call that returned at instant t, with a token or not
Tally(w, ok, t) ==
    IF w.from >= 0 /\ ok /\ t >= w.from THEN [w EXCEPT !.n = @ + 1] ELSE w

Ret(op, ok, t1, prev, slept, dur, count) ==
    [op |-> op, ok |-> ok, t1 |-> t1, prev |-> prev, slept |-> slept,
     dur |-> dur, count |-> count]

Init ==
    /\ now \in 0..MaxStart
    /\ overflow_checks \in BOOLEAN
    /\ instant_floor \in {0, DeepFloor}
    /\ tb = "none"
    /\ last_refreshed = 0
    /\ max_refresh_duration = 0
    /\ refresh_interval = 0
    /\ args = [refresh_interval_ms |-> 0, max_capacity |-> 0, initial_capacity |-> 0]
    /\ t0 = 0
    /\ burst = 0
    /\ rested = FALSE
    /\ run = "fresh"
    /\ nok = 0
    /\ take_failed = FALSE
    /\ clamped = FALSE
    /\ served = 0
    /\ early = 0
    /\ window = NoWindow
    /\ ret = Ret("none", FALSE, 0, 0, FALSE, 0, 0)

\* let tb = TokenBucket::new(refresh_interval_ms, max_capacity, initial_capacity)
New(refresh_interval_ms, max_capacity, initial_capacity) ==
    /\ tb = "none"
    /\ LET b == new(refresh_interval_ms, max_capacity, initial_capacity, now,
                    overflow_checks, instant_floor)
       IN  /\ tb' = b.status
           /\ last_refreshed' = b.last_refreshed
           /\ max_refresh_duration' = b.max_refresh_duration
           /\ refresh_interval' = b.refresh_interval
           /\ ret' = Ret("new", b.status = "some", now, 0, FALSE, 0, 0)
    /\ args' = [refresh_interval_ms |-> refresh_interval_ms,
                max_capacity |-> max_capacity,
                initial_capacity |-> initial_capacity]
    /\ t0' = now
    /\ UNCHANGED <<now, overflow_checks, instant_floor, burst, rested, run, nok,
                   take_failed, clamped, served, early, window>>

\* tb.try_take(); the clock moves by d between the call's two readings
TryTake(d) ==
    /\ tb = "some"
    /\ now + d <= MaxTime
    /\ LET r == try_take(last_refreshed, max_refresh_duration, refresh_interval,
                         now, now + d, instant_floor)
       IN  /\ last_refreshed' = r.last_refreshed
           /\ ret' = Ret("try_take", r.ok, now, last_refreshed, FALSE, 0, 0)
           /\ burst' = IF d > 0 THEN 0 ELSE IF r.ok THEN burst + 1 ELSE burst
           /\ window' = Tally(window, r.ok, now + d)
    /\ served' = IF d > 0 THEN 0 ELSE served
    /\ early' = 0
    /\ now' = now + d
    /\ rested' = (rested /\ d = 0)
    /\ run' = IF run \in {"fresh", "try_takes"} THEN "try_takes" ELSE "mixed"
    /\ nok' = 0
    /\ take_failed' = FALSE
    /\ clamped' = FALSE
    /\ UNCHANGED <<overflow_checks, instant_floor, tb, max_refresh_duration,
                   refresh_interval, args, t0>>

\* tb.take(); the clock moves by d1 and d2 between the call's three readings
\* and thread::sleep returns `over` late
Take(d1, d2, over) ==
    /\ tb = "some"
    /\ LET r == take(last_refreshed, max_refresh_duration, refresh_interval,
                     now, now + d1, now + d1 + d2, over, instant_floor)
           pure == run \in {"fresh", "takes"}
       IN  /\ r.wake <= MaxTime
           /\ last_refreshed' = r.last_refreshed
           /\ now' = r.wake
           /\ ret' = Ret("take", r.ok, now, last_refreshed, r.slept, r.dur, 0)
           /\ burst' = IF r.wake > now THEN 0 ELSE burst
           /\ served' = IF r.wake > now THEN 0
                        ELSE IF r.ok THEN served + 1 ELSE served
           /\ early' = IF r.slept /\ over < 0 THEN 0 - over ELSE 0
           /\ window' = Tally(window, r.ok, r.wake)
           /\ rested' = (rested /\ r.wake = now)
           /\ run' = IF pure THEN "takes" ELSE "mixed"
           /\ nok' = IF pure /\ r.ok THEN nok + 1 ELSE IF pure THEN nok ELSE 0
           /\ take_failed' = (pure /\ (take_failed \/ ~r.ok))
           /\ clamped' = (pure /\ (clamped \/
                            (r.ok /\ now - max_refresh_duration > last_refreshed)))
    /\ UNCHANGED <<overflow_checks, instant_floor, tb, max_refresh_duration,
                   refresh_interval, args, t0>>

\* mutant of the rendering: it takes a token when one is there
DebugTaking(d) ==
    /\ tb = "some"
    /\ now + d <= MaxTime
    /\ LET c == fmt(last_refreshed, max_refresh_duration, refresh_interval,
                    now, now + d, instant_floor)
       IN  ret' = Ret("debug", c # None, now, last_refreshed, FALSE, 0,
                      IF c = None THEN 0 ELSE unwrap(c))
    /\ last_refreshed' = try_take(last_refreshed, max_refresh_duration,
                                  refresh_interval, now, now + d,
                                  instant_floor).last_refreshed
    /\ now' = now + d
    /\ burst' = IF d > 0 THEN 0 ELSE burst
    /\ served' = IF d > 0 THEN 0 ELSE served
    /\ early' = 0
    /\ rested' = (rested /\ d = 0)
    /\ run' = "mixed"
    /\ nok' = 0
    /\ take_failed' = FALSE
    /\ clamped' = FALSE
    /\ UNCHANGED <<overflow_checks, instant_floor, tb,
                   max_refresh_duration, refresh_interval, args, t0, window>>

\* println!("{:?}", tb); the clock moves by d between the two readings
Debug(d) ==
    /\ tb = "some"
    /\ now + d <= MaxTime
    /\ LET c == fmt(last_refreshed, max_refresh_duration, refresh_interval,
                    now, now + d, instant_floor)
       IN  ret' = Ret("debug", c # None, now, last_refreshed, FALSE, 0,
                      IF c = None THEN 0 ELSE unwrap(c))
    /\ now' = now + d
    /\ burst' = IF d > 0 THEN 0 ELSE burst
    /\ served' = IF d > 0 THEN 0 ELSE served
    /\ early' = 0
    /\ rested' = (rested /\ d = 0)
    /\ run' = "mixed"
    /\ nok' = 0
    /\ take_failed' = FALSE
    /\ clamped' = FALSE
    /\ UNCHANGED <<overflow_checks, instant_floor, tb, last_refreshed,
                   max_refresh_duration, refresh_interval, args, t0, window>>

\* the owner of the bucket leaves it alone: thread::sleep(d) outside the bucket
Sleep(d) ==
    /\ tb = "some"
    /\ now + d <= MaxTime
    /\ now' = now + d
    /\ rested' = (d >= max_refresh_duration)
    /\ burst' = 0
    /\ served' = 0
    /\ early' = 0
    /\ run' = "mixed"
    /\ nok' = 0
    /\ take_failed' = FALSE
    /\ clamped' = FALSE
    /\ ret' = Ret("sleep", TRUE, now, last_refreshed, FALSE, d, 0)
    /\ UNCHANGED <<overflow_checks, instant_floor, tb, last_refreshed,
                   max_refresh_duration, refresh_interval, args, t0, window>>

Next ==
    \/ \E r \in 0..MaxInterval, m \in 0..MaxCapacity, i \in 0..MaxInitial : New(r, m, i)
    \/ \E d \in 0..MaxSkew : TryTake(d)
    \/ \E d1 \in 0..MaxSkew, d2 \in 0..MaxSkew, over \in 0..MaxOvershoot : Take(d1, d2, over)
    \/ \E d \in 0..MaxSkew : Debug(d)
    \/ \E d \in 1..MaxIdle : Sleep(d)

Spec == Init /\ [][Next]_vars

\* tb.take() on a platform whose thread::sleep may return before the time
\* asked: the sleep of this call returns `under` early
TakeEarly(d1, d2, under) ==
    /\ tb = "some"
    /\ LET r == take(last_refreshed, max_refresh_duration, refresh_interval,
                     now, now + d1, now + d1 + d2, 0, instant_floor)
       IN  r.slept /\ r.dur >= under
    /\ Take(d1, d2, 0 - under)

NextEarly ==
    \/ Next
    \/ \E d1 \in 0..MaxSkew, d2 \in 0..MaxSkew, under \in 1..MaxUnder :
          TakeEarly(d1, d2, under)

SpecEarly == Init /\ [][NextEarly]_vars

\* the value new gave last_refreshed
InitialLastRefreshed ==
    t0 - wrapping_mul(args.refresh_interval_ms,
                      current_tokens_count(args.max_capacity, args.initial_capacity))

\* an observer opens a window, once, at the instant a call has returned with
\* a token, that call being the first of the window; `first` tells whether it
\* is the first token taken from the bucket
Mark ==
    /\ tb = "some"
    /\ window = NoWindow
    /\ ret.op \in {"try_take", "take"}
    /\ ret.ok
    /\ window' = [from |-> now, n |-> 1, first |-> ret.prev = InitialLastRefreshed]
    /\ UNCHANGED <<now, overflow_checks, instant_floor, tb, last_refreshed,
                   max_refresh_duration, refresh_interval, args, t0, burst,
                   rested, run, nok, take_failed, clamped, served, early, ret>>

NextWindow ==
    \/ Next
    \/ Mark

SpecWindow == Init /\ [][NextWindow]_vars

TypeOK ==
    /\ now \in 0..MaxTime
    /\ tb \in {"none", "some", "absent", "panic"}
    /\ run \in {"fresh", "try_takes", "takes", "mixed"}
    /\ burst \in Nat
    /\ nok \in Nat

\* ---- properties ----------------------------------------------------------
Clamped0 == min(args.max_capacity, args.initial_capacity)

\* C1: with the clock still at the instant of construction, the number of
\* try_take calls that succeeded is at most min(max_capacity, initial_capacity)
BoundedBurst ==
    (tb = "some" /\ now = t0) => burst <= Clamped0

BoundedBurstWitness ==
    /\ tb = "some" /\ now = t0 /\ run = "try_takes"
    /\ Clamped0 >= 2 /\ burst = Clamped0
    /\ ret.op = "try_take" /\ ~ret.ok

\* C2: at the instant of construction, with nothing but try_take called on
\* the bucket, a try_take is refused only after min(max_capacity,
\* initial_capacity) of them succeeded
InitialTokensAvailable ==
    (tb = "some" /\ now = t0 /\ run = "try_takes" /\ ret.op = "try_take" /\ ~ret.ok)
        => burst >= Clamped0

\* C3: after the caller slept for at least max_refresh_duration, at most
\* max_capacity try_take calls succeed while the clock stands still
Clamping ==
    (tb = "some" /\ rested) => burst <= args.max_capacity

ClampingWitness ==
    /\ tb = "some" /\ rested /\ max_refresh_duration > 0
    /\ args.max_capacity >= 2 /\ burst = args.max_capacity
    /\ ret.op = "try_take" /\ ~ret.ok

\* C4: a try_take whose clock readings agree succeeds iff
\* now >= max(last_refreshed, now - max_refresh_duration) + refresh_interval,
\* and on success last_refreshed becomes that value
TryTakeIffAvailable ==
    (ret.op = "try_take" /\ ret.t1 = now) =>
        LET next == max(ret.prev, now - max_refresh_duration) + refresh_interval
        IN  /\ ret.ok <=> now >= next
            /\ ret.ok => last_refreshed = next

\* C5: take returns Some(()) and leaves last_refreshed at
\* max(last_refreshed, now - max_refresh_duration) + refresh_interval, with
\* now read at entry
TakeNeverFails ==
    ret.op = "take" =>
        /\ ret.ok
        /\ last_refreshed =
              max(ret.prev, ret.t1 - max_refresh_duration) + refresh_interval

\* C6: new returns None whenever refresh_interval_ms * max_capacity leaves
\* the u64 range
ConstructionOverflowAbsent ==
    (tb # "none" /\ mul_overflows(args.refresh_interval_ms, args.max_capacity))
        => tb = "absent"

\* C7: new returns None for refresh_interval_ms = 0; when the products fit,
\* it returns None if now - refresh_interval_ms * min(max_capacity,
\* initial_capacity) is older than the oldest Instant, and otherwise a bucket
\* with refresh_interval = refresh_interval_ms, max_refresh_duration =
\* refresh_interval_ms * max_capacity and last_refreshed at that instant
ConstructionResult ==
    tb # "none" =>
        LET r == args.refresh_interval_ms
            past == t0 - r * Clamped0
            fits == ~mul_overflows(r, args.max_capacity)
        IN  /\ r = 0 => tb = "absent"
            /\ (r > 0 /\ fits /\ past < instant_floor) => tb = "absent"
            /\ (r > 0 /\ fits /\ past >= instant_floor) =>
                  /\ tb = "some"
                  /\ refresh_interval = r
                  /\ max_refresh_duration = r * args.max_capacity
                  /\ ret.op = "new" => last_refreshed = past

ConstructionResultWitness ==
    /\ tb = "some" /\ ret.op = "new"
    /\ args.initial_capacity > args.max_capacity /\ args.max_capacity >= 1
    /\ last_refreshed = t0 - args.refresh_interval_ms * args.max_capacity
    /\ last_refreshed < t0

\* C8: a try_take that returns None changes none of last_refreshed,
\* refresh_interval and max_refresh_duration
FailedTryTakeKeepsState ==
    [][(ret'.op = "try_take" /\ ~ret'.ok) =>
          /\ last_refreshed' = last_refreshed
          /\ refresh_interval' = refresh_interval
          /\ max_refresh_duration' = max_refresh_duration]_vars

FailedTryTakeWitness ==
    /\ ret.op = "try_take" /\ ~ret.ok
    /\ now - max_refresh_duration >= instant_floor
    /\ last_refreshed + refresh_interval > now
    /\ last_refreshed = ret.prev

\* C9: the time take asks thread::sleep for is at most refresh_interval
SleepBound ==
    (ret.op = "take" /\ ret.slept) => ret.dur <= refresh_interval

SleepBoundWitness ==
    /\ ret.op = "take" /\ ret.slept /\ ret.dur = refresh_interval
    /\ refresh_interval >= 2 /\ run = "mixed"

\* C10 as stated: in a run of take calls on a bucket constructed empty, all
\* of which returned Some(()), the k-th call leaves
\* last_refreshed = start + k * refresh_interval
NoDriftAlways ==
    (tb = "some" /\ run = "takes" /\ Clamped0 = 0 /\ ~take_failed) =>
        last_refreshed = t0 + nok * refresh_interval

\* C10 amended: in a run of take calls on a bucket constructed empty, in which
\* no call found now - max_refresh_duration > last_refreshed at entry, after k
\* calls returned Some(()) last_refreshed = start + k * refresh_interval
NoDrift ==
    (tb = "some" /\ run = "takes" /\ Clamped0 = 0 /\ ~clamped) =>
        last_refreshed = t0 + nok * refresh_interval

NoDriftWitness ==
    /\ tb = "some" /\ run = "takes" /\ Clamped0 = 0 /\ ~clamped
    /\ nok >= 2 /\ ret.ok /\ max_refresh_duration > 0
    /\ ret.t1 > ret.prev
    /\ now > last_refreshed

\* C11: in a run of take calls started at the instant an empty bucket was
\* constructed, every call returns Some(()) and the N-th returns no earlier
\* than N * refresh_interval after the start
RateLaw ==
    (tb = "some" /\ run = "takes" /\ Clamped0 = 0) =>
        /\ ~take_failed
        /\ now - t0 >= nok * refresh_interval

\* the count floor((now - max(last_refreshed, now - max_refresh_duration))
\* / refresh_interval) at the present instant
TokenCount ==
    (now - max(last_refreshed, now - max_refresh_duration)) \div refresh_interval

\* C12: the token count lies in 0 .. max_capacity at every instant, and the
\* rendering reports a count, which lies in 0 .. max_capacity and is that count
TokenCountInRange ==
    tb = "some" =>
        /\ TokenCount \in 0..args.max_capacity
        /\ ret.op = "debug" =>
              /\ ret.ok
              /\ ret.count \in 0..args.max_capacity
              /\ ret.t1 = now => ret.count = TokenCount

\* C13: last_refreshed is never later than the clock
LastRefreshedNotFuture ==
    tb = "some" => last_refreshed <= now

LastRefreshedNotFutureWitness ==
    /\ tb = "some" /\ ret.op = "take" /\ ret.ok /\ ret.slept
    /\ last_refreshed = now /\ now > t0

\* C14: the rendering changes none of last_refreshed, refresh_interval and
\* max_refresh_duration
DebugReadOnly ==
    [][ret'.op = "debug" =>
          /\ last_refreshed' = last_refreshed
          /\ refresh_interval' = refresh_interval
          /\ max_refresh_duration' = max_refresh_duration]_vars

DebugReadOnlyWitness ==
    /\ tb = "some" /\ ret.op = "debug" /\ ret.ok /\ ret.count >= 2
    /\ ret.t1 = now /\ last_refreshed = ret.prev
    /\ TokenCount = ret.count

\* C18: last_refreshed never decreases; a call that takes a token raises it
\* by exactly refresh_interval when now - max_refresh_duration <= last_refreshed
\* at entry and by more otherwise; the two durations never change
LastRefreshedMonotonic ==
    [][tb = "some" =>
          /\ last_refreshed' >= last_refreshed
          /\ refresh_interval' = refresh_interval
          /\ max_refresh_duration' = max_refresh_duration
          /\ (ret'.op \in {"try_take", "take"} /\ ret'.ok) =>
                /\ last_refreshed' >= last_refreshed + refresh_interval
                /\ now - max_refresh_duration <= last_refreshed =>
                      last_refreshed' = last_refreshed + refresh_interval
                /\ now - max_refresh_duration > last_refreshed =>
                      last_refreshed' > last_refreshed + refresh_interval]_vars

LastRefreshedMonotonicWitness ==
    /\ tb = "some" /\ ret.op \in {"try_take", "take"} /\ ret.ok
    /\ max_refresh_duration > 0
    /\ ret.t1 - max_refresh_duration > ret.prev
    /\ last_refreshed > ret.prev + refresh_interval

\* C19: on a bucket constructed with max_capacity = 0 every try_take returns
\* None and leaves last_refreshed alone
ZeroCapacityNeverGrants ==
    (tb = "some" /\ args.max_capacity = 0 /\ ret.op = "try_take") =>
        /\ ~ret.ok
        /\ last_refreshed = ret.prev

\* the products of new fit the u64 range
Fits == ~mul_overflows(args.refresh_interval_ms, args.max_capacity)

\* C15: take sleeps only when no whole token is there at entry, for no longer
\* than up to its deadline and until the deadline at least; a bucket
\* constructed full, and a bucket the caller left alone for
\* max_refresh_duration, serve max_capacity take calls without a sleep
TakeSleepsOnlyWhenEmpty ==
    [][ret'.op = "take" =>
          LET next == max(last_refreshed, now - max_refresh_duration)
                         + refresh_interval
              left == burst + served < args.max_capacity
          IN  /\ now >= next => ~ret'.slept
              /\ ret'.slept => (ret'.dur <= next - now /\ now' >= next)
              /\ (Fits /\ now = t0 /\ left
                    /\ args.initial_capacity >= args.max_capacity)
                    => (ret'.ok /\ ~ret'.slept)
              /\ (Fits /\ rested /\ left) => (ret'.ok /\ ~ret'.slept)]_vars

TakeSleepsOnlyWhenEmptyWitness ==
    /\ tb = "some" /\ Fits /\ rested /\ burst = 0
    /\ args.max_capacity >= 2 /\ served = args.max_capacity
    /\ ret.op = "take" /\ ret.ok /\ ~ret.slept

\* C16: after a take whose sleep returned early, last_refreshed is the
\* deadline next of that call all the same; the take that follows returns
\* Some(()) and stores next + refresh_interval, and a call that takes the
\* following token returns no earlier than next + refresh_interval unless
\* its own sleep returns early
UnderSleepHeals ==
    [][(tb = "some" /\ ret.op = "take" /\ early > 0) =>
          LET next == max(ret.prev, ret.t1 - max_refresh_duration)
                         + refresh_interval
          IN  /\ last_refreshed = next
              /\ now < next
              /\ ret'.op = "take" =>
                    (ret'.ok /\ last_refreshed' = next + refresh_interval)
              /\ (ret'.op \in {"take", "try_take"} /\ ret'.ok /\ early' = 0) =>
                    /\ last_refreshed' = next + refresh_interval
                    /\ now' >= next + refresh_interval]_vars

UnderSleepHealsWitness ==
    /\ tb = "some" /\ ret.op = "take" /\ ret.ok /\ ret.slept /\ early = 0
    /\ ret.prev > ret.t1
    /\ last_refreshed = ret.prev + refresh_interval
    /\ now >= last_refreshed

\* C17: the calls that returned with a token up to now number at most
\* min(max_capacity, initial_capacity) + floor((now - t0) / refresh_interval)
\* since construction, and at most
\* max_capacity + floor(W / refresh_interval) + 1 in a window of length W
RateBound ==
    (tb = "some" /\ window.from >= 0) =>
        /\ window.first =>
              window.n <= Clamped0 + ((now - t0) \div refresh_interval)
        /\ window.n <= args.max_capacity
                         + ((now - window.from) \div refresh_interval) + 1

RateBoundWitness ==
    /\ tb = "some" /\ window.from > t0 /\ now > window.from
    /\ args.max_capacity >= 1 /\ ~window.first
    /\ window.n = args.max_capacity
                    + ((now - window.from) \div refresh_interval) + 1

====
